---- MODULE Spec2Model ----
(***************************************************************************)
(* A model of ol/style/Style.js: the Style descriptor (constructor,        *)
(* setters, setGeometry, clone), the adapter toFunction, and the two       *)
(* factories createDefaultStyle and createEditingStyle.                    *)
(*                                                                         *)
(* JavaScript objects live in `heap`, a sequence indexed by object         *)
(* identity; a reference is a value that carries the index.  Every         *)
(* JavaScript value is a record of one shape, [t, s, n, env], so that any  *)
(* two values can be compared:                                             *)
(*   t    the kind of value ("undefined", "null", "boolean", "number",     *)
(*        "string", "function", "object")                                  *)
(*   s    the text of a string, the code of a function, the class of an    *)
(*        object that is not kept on the heap, "heap" for a reference      *)
(*   n    a number in hundredths, a heap index, or an ordinal              *)
(*   env  the values a closure captured                                    *)
(***************************************************************************)
EXTENDS Integers, Sequences, FiniteSets, TLC

VARIABLES
  heap,           \* the objects allocated so far, by identity
  defaultStyles,  \* the module variable of Style.js line 309
  call,           \* the call that completed last: op, this, arg, ret, thrown
  held,           \* what the caller kept of the results of earlier calls
  calls           \* how many calls the caller has made, where a run is bounded

vars == <<heap, defaultStyles, call, held, calls>>

---------------------------------------------------------------------------
(* JavaScript values *)

Val(t, s, n) == [t |-> t, s |-> s, n |-> n, env |-> <<>>]

Undefined == Val("undefined", "", 0)
Null == Val("null", "", 0)
False == Val("boolean", "", 0)
True == Val("boolean", "", 1)
NaN == Val("number", "NaN", 0)
Infinity == Val("number", "Infinity", 0)

\* a finite number, kept in hundredths: Num(3) is 3, Hundredths(125) is 1.25
Num(k) == Val("number", "", k * 100)
Hundredths(h) == Val("number", "", h)
Str(s) == Val("string", s, 0)

\* a reference to the heap object of identity id
Ref(id) == Val("object", "heap", id)
IsRef(v) == v.t = "object" /\ v.s = "heap"

\* an object of a collaborator that the model keeps off the heap
Ext(class, k) == Val("object", class, k)

\* a function written by the caller, known by its ordinal
UserFn(k) == Val("function", "user", k)

\* a closure of Style.js: its code and the value it captured
Closure(code, captured) ==
  [t |-> "function", s |-> code, n |-> 0, env |-> <<captured>>]

\* JavaScript's typeof
TypeOf(v) == IF v.t = "null" THEN "object" ELSE v.t

\* JavaScript's ToBoolean: undefined, null, false, 0, NaN and "" are falsy
ToBoolean(v) ==
  CASE v.t = "undefined" -> FALSE
    [] v.t = "null" -> FALSE
    [] v.t = "boolean" -> v.n = 1
    [] v.t = "number" -> ~(v.s = "NaN" \/ (v.s = "" /\ v.n = 0))
    [] v.t = "string" -> v.s # ""
    [] OTHER -> TRUE

\* number arithmetic of createEditingStyle (width + 2, width * 2, width / 2)
Plus(a, b) == Hundredths(a.n + b.n)
Times(a, b) == Hundredths((a.n * b.n) \div 100)
Over(a, b) == Hundredths((a.n * 100) \div b.n)

---------------------------------------------------------------------------
(* Collaborators of Style.js: the feature, the sub-styles, the geometry.   *)
(* Their code is not part of Style.js; they are modelled from their        *)
(* contracts.                                                              *)

\* Features the resolvers are applied to.  Feature 1 has a geometry, which
\* it keeps under the property "geometry", and another one under "geom";
\* feature 2 has no geometry of its own and one under "geom".
Features == {Ext("Feature", 1), Ext("Feature", 2)}

FeatureGetGeometry(feature) ==
  IF feature.n = 1 THEN Ext("FeatureGeometry", 1) ELSE Undefined

FeatureGet(feature, name) ==
  CASE name = "geometry" -> FeatureGetGeometry(feature)
    [] name = "geom" -> Ext("FeatureGeometry", 2 + feature.n)
    [] OTHER -> Undefined

\* what a function of the caller returns for a feature
UserFnResult(k, feature) == Ext("UserGeometry", k)

\* the outcome of a call that may allocate and may throw
Outcome(h, v, thrown) == [h |-> h, v |-> v, thrown |-> thrown]
Returned(h, v) == Outcome(h, v, Undefined)
Thrown(h, error) == Outcome(h, Undefined, error)
Alloc(h, obj) == Returned(Append(h, obj), Ref(Len(h) + 1))

TypeError == Ext("TypeError", 0)
AssertionError(code) == Ext("AssertionError", code)

\* asserts.js: assert(assertion, errorCode) throws AssertionError(errorCode)
assert(assertion, errorCode) ==
  IF assertion THEN Undefined ELSE AssertionError(errorCode)

\* the objects of the collaborators, as their constructors leave them
ArrayObject(elems) == [kind |-> "Array", elems |-> elems]
FillObject(color) == [kind |-> "Fill", color_ |-> color]
StrokeObject(color, width) ==
  [kind |-> "Stroke", color_ |-> color, width_ |-> width]
CircleStyleObject(fill, stroke, radius) ==
  [kind |-> "Circle", fill_ |-> fill, stroke_ |-> stroke, radius_ |-> radius]
TextObject(text) == [kind |-> "Text", text_ |-> text]
GeometryObject(coords) == [kind |-> "Geometry", coords_ |-> coords]
\* a plain record of the caller: it has no clone method
PlainObject(tag) == [kind |-> "Object", tag_ |-> tag]
\* a record used as a mapping from keys to values
MapObject(props) == [kind |-> "Map", props |-> props]

NewArray(h, elems) == Alloc(h, ArrayObject(elems))
NewFill(h, color) == Alloc(h, FillObject(color))
NewStroke(h, color, width) == Alloc(h, StrokeObject(color, width))
NewCircleStyle(h, fill, stroke, radius) ==
  Alloc(h, CircleStyleObject(fill, stroke, radius))
NewText(h, text) == Alloc(h, TextObject(text))
NewGeometry(h, coords) == Alloc(h, GeometryObject(coords))

IsKind(h, v, kind) == IsRef(v) /\ v.n \in DOMAIN h /\ h[v.n].kind = kind

\* the classes whose instances have a clone method
ClonableKinds == {"Fill", "Stroke", "Circle", "Text", "Geometry"}

\* the value of the property v.clone is truthy
HasClone(h, v) == IsRef(v) /\ h[v.n].kind \in ClonableKinds

\* a color is copied when it is an array, and kept when it is a string
CopyColor(h, color) ==
  IF IsKind(h, color, "Array") THEN NewArray(h, h[color.n].elems)
  ELSE Returned(h, color)

\* fill.clone(), stroke.clone(), text.clone(), geometry.clone(): a new
\* instance with equal parameters
CloneLeaf(h, v) ==
  LET o == h[v.n] IN
  CASE o.kind = "Fill" ->
         LET c == CopyColor(h, o.color_) IN NewFill(c.h, c.v)
    [] o.kind = "Stroke" ->
         LET c == CopyColor(h, o.color_) IN NewStroke(c.h, c.v, o.width_)
    [] o.kind = "Text" -> NewText(h, o.text_)
    [] o.kind = "Geometry" -> NewGeometry(h, o.coords_)

\* v.clone() for any value v: a TypeError when v has no clone method; the
\* clone of a circle clones the circle's fill and stroke
CallClone(h, v) ==
  IF ~HasClone(h, v) THEN Thrown(h, TypeError)
  ELSE IF h[v.n].kind = "Circle" THEN
    LET o == h[v.n]
        f == IF ToBoolean(o.fill_) THEN CloneLeaf(h, o.fill_)
             ELSE Returned(h, Undefined)
        s == IF ToBoolean(o.stroke_) THEN CloneLeaf(f.h, o.stroke_)
             ELSE Returned(f.h, Undefined)
    IN NewCircleStyle(s.h, f.v, s.v, o.radius_)
  ELSE CloneLeaf(h, v)

---------------------------------------------------------------------------
(* Style.js: the Style descriptor *)

\* the value of options[key]; a key the record lacks reads as undefined
Opt(options, key) ==
  IF key \in DOMAIN options THEN options[key] ELSE Undefined

\* the options record {} that stands in for an absent opt_options
NoOptions == [key \in {} |-> Undefined]

\* function defaultGeometryFunction(feature)
defaultGeometryFunction == Val("function", "defaultGeometryFunction", 0)

\* setGeometry without its third branch: a falsy geometry leaves the geometry
\* function as it was
setGeometryNoReset(this, geometry) ==
  LET geometryFunction ==
        IF TypeOf(geometry) = "function" THEN geometry
        ELSE IF TypeOf(geometry) = "string" THEN Closure("featureGet", geometry)
        ELSE IF ToBoolean(geometry) THEN Closure("fixed", geometry)
        ELSE this.geometryFunction_
  IN [this EXCEPT !.geometryFunction_ = geometryFunction,
                  !.geometry_ = geometry]

\* setGeometry without its last branch: a fixed geometry leaves the geometry
\* function as it was
setGeometryNoFixed(this, geometry) ==
  LET geometryFunction ==
        IF TypeOf(geometry) = "function" THEN geometry
        ELSE IF TypeOf(geometry) = "string" THEN Closure("featureGet", geometry)
        ELSE IF ~ToBoolean(geometry) THEN defaultGeometryFunction
        ELSE this.geometryFunction_
  IN [this EXCEPT !.geometryFunction_ = geometryFunction,
                  !.geometry_ = geometry]

\* Style.prototype.setGeometry, on the fields of the descriptor `this`
setGeometry(this, geometry) ==
  LET geometryFunction ==
        IF TypeOf(geometry) = "function" THEN geometry
        ELSE IF TypeOf(geometry) = "string" THEN Closure("featureGet", geometry)
        ELSE IF ~ToBoolean(geometry) THEN defaultGeometryFunction
        ELSE IF geometry # Undefined THEN Closure("fixed", geometry)
        ELSE this.geometryFunction_
  IN [this EXCEPT !.geometryFunction_ = geometryFunction,
                  !.geometry_ = geometry]

\* `x !== undefined ? x : null`
OrNull(x) == IF x # Undefined THEN x ELSE Null

\* the constructor, lines 21 to 77: the fields of new Style(opt_options)
StyleObject(options) ==
  LET this0 == [kind |-> "Style",
                geometry_ |-> Null,
                geometryFunction_ |-> defaultGeometryFunction,
                fill_ |-> Undefined, image_ |-> Undefined,
                renderer_ |-> Undefined, stroke_ |-> Undefined,
                text_ |-> Undefined, zIndex_ |-> Undefined]
      this1 == IF Opt(options, "geometry") # Undefined
               THEN setGeometry(this0, Opt(options, "geometry"))
               ELSE this0
  IN [this1 EXCEPT !.fill_ = OrNull(Opt(options, "fill")),
                   !.image_ = OrNull(Opt(options, "image")),
                   !.renderer_ = OrNull(Opt(options, "renderer")),
                   !.stroke_ = OrNull(Opt(options, "stroke")),
                   !.text_ = OrNull(Opt(options, "text")),
                   !.zIndex_ = Opt(options, "zIndex")]

\* new Style(opt_options)
Style(h, options) == Alloc(h, StyleObject(options))

getGeometry(h, this) == h[this.n].geometry_
getGeometryFunction(h, this) == h[this.n].geometryFunction_
getFill(h, this) == h[this.n].fill_
getImage(h, this) == h[this.n].image_
getRenderer(h, this) == h[this.n].renderer_
getStroke(h, this) == h[this.n].stroke_
getText(h, this) == h[this.n].text_
getZIndex(h, this) == h[this.n].zIndex_

\* the application of a geometry function to a feature
CallGeometryFunction(fn, feature) ==
  CASE fn.s = "defaultGeometryFunction" -> FeatureGetGeometry(feature)
    [] fn.s = "featureGet" -> FeatureGet(feature, fn.env[1].s)
    [] fn.s = "fixed" -> fn.env[1]
    [] fn.s = "user" -> UserFnResult(fn.n, feature)

\* `x && x.clone ? x.clone() : undefined`: a sub-style with no clone method
\* is left out, as the geometry is guarded on line 87
CloneOrUndefinedGuarded(h, x) ==
  IF ToBoolean(x) /\ HasClone(h, x) THEN CallClone(h, x)
  ELSE Returned(h, Undefined)

\* `x ? x.clone() : undefined`
CloneOrUndefined(h, x) ==
  IF ToBoolean(x) THEN CallClone(h, x) ELSE Returned(h, Undefined)

\* the next step of an evaluation, unless an earlier step has thrown
Then(before, next) == IF before.thrown # Undefined THEN before ELSE next

\* Style.prototype.clone.  The expressions of the object literal are evaluated
\* in the order written, each on the heap the one before left; an evaluation
\* that throws ends the call.  ({F(x) : x \in {e}} binds x to the value of e.)

\* the clone is given the renderer of the original
cloneTextWithRenderer(h, this, geometry, fill, image, stroke) ==
  CHOOSE outcome \in
    {Then(text,
          Style(text.h, [geometry |-> geometry.v, fill |-> fill.v,
                         image |-> image.v, stroke |-> stroke.v,
                         text |-> text.v, zIndex |-> getZIndex(h, this),
                         renderer |-> getRenderer(h, this)])) :
       text \in {Then(stroke, CloneOrUndefined(stroke.h, getText(h, this)))}} :
    TRUE

\* line 95, and the construction of the clone
cloneText(h, this, geometry, fill, image, stroke) ==
  CHOOSE outcome \in
    {Then(text,
          Style(text.h, [geometry |-> geometry.v, fill |-> fill.v,
                         image |-> image.v, stroke |-> stroke.v,
                         text |-> text.v, zIndex |-> getZIndex(h, this)])) :
       text \in {Then(stroke, CloneOrUndefined(stroke.h, getText(h, this)))}} :
    TRUE

\* line 94
cloneStroke(h, this, geometry, fill, image) ==
  CHOOSE outcome \in
    {cloneText(h, this, geometry, fill, image, stroke) :
       stroke \in {Then(image, CloneOrUndefined(image.h, getStroke(h, this)))}} :
    TRUE

\* line 93
cloneImage(h, this, geometry, fill) ==
  CHOOSE outcome \in
    {cloneStroke(h, this, geometry, fill, image) :
       image \in {Then(fill, CloneOrUndefined(fill.h, getImage(h, this)))}} :
    TRUE

\* the clone is given the fill of the original, not a clone of it
cloneFillShared(h, this, geometry) ==
  cloneImage(h, this, geometry, Returned(geometry.h, getFill(h, this)))

\* line 92
cloneFill(h, this, geometry) ==
  CHOOSE outcome \in
    {cloneImage(h, this, geometry, fill) :
       fill \in {Then(geometry,
                      CloneOrUndefined(geometry.h, getFill(h, this)))}} :
    TRUE

\* lines 86 to 89: the geometry is cloned when it has a clone method, and
\* shared otherwise
cloneGeometry(h, this) ==
  IF ToBoolean(getGeometry(h, this)) /\ HasClone(h, getGeometry(h, this))
  THEN CallClone(h, getGeometry(h, this))
  ELSE Returned(h, getGeometry(h, this))

clone(h, this) ==
  CHOOSE outcome \in
    {cloneFill(h, this, geometry) : geometry \in {cloneGeometry(h, this)}} :
    TRUE

---------------------------------------------------------------------------
(* Style.js: toFunction, createDefaultStyle, createEditingStyle *)

\* Array.isArray(obj) and obj instanceof Style
IsArray(h, obj) == IsKind(h, obj, "Array")
InstanceOfStyle(h, obj) == IsKind(h, obj, "Style")

\* toFunction without the assertion of line 294: whatever is not a function
\* or an array is wrapped in an array
toFunctionNoAssert(h, obj) ==
  IF TypeOf(obj) = "function" THEN Returned(h, obj)
  ELSE IF IsArray(h, obj) THEN Returned(h, Closure("returnStyles", obj))
  ELSE Returned(NewArray(h, <<obj>>).h,
                Closure("returnStyles", NewArray(h, <<obj>>).v))

\* toFunction with a copy of the array in place of the array of the caller
toFunctionCopy(h, obj) ==
  IF TypeOf(obj) = "function" THEN Returned(h, obj)
  ELSE IF IsArray(h, obj)
    THEN Returned(NewArray(h, h[obj.n].elems).h,
                  Closure("returnStyles", NewArray(h, h[obj.n].elems).v))
  ELSE IF assert(InstanceOfStyle(h, obj), 41) # Undefined
    THEN Thrown(h, assert(InstanceOfStyle(h, obj), 41))
  ELSE Returned(NewArray(h, <<obj>>).h,
                Closure("returnStyles", NewArray(h, <<obj>>).v))

\* toFunction(obj): the style function is obj, or a closure over `styles`
toFunction(h, obj) ==
  IF TypeOf(obj) = "function" THEN Returned(h, obj)
  ELSE IF IsArray(h, obj) THEN Returned(h, Closure("returnStyles", obj))
  ELSE IF assert(InstanceOfStyle(h, obj), 41) # Undefined
    THEN Thrown(h, assert(InstanceOfStyle(h, obj), 41))
  ELSE Returned(NewArray(h, <<obj>>).h,
                Closure("returnStyles", NewArray(h, <<obj>>).v))

\* what a style function of the caller returns
UserStyles(k, feature, resolution) == Ext("UserStyles", k)

\* the application of a style function: the closure of lines 298 to 300
\* returns `styles` whatever its arguments are
CallStyleFunction(fn, feature, resolution) ==
  IF fn.s = "returnStyles" THEN fn.env[1]
  ELSE UserStyles(fn.n, feature, resolution)

\* createDefaultStyle without the test of line 323: every call builds
createDefaultStyleNoCache(h, cached, feature, resolution) ==
  LET b == Len(h)
      fill == Ref(b + 1)
      stroke == Ref(b + 2)
      image == Ref(b + 3)
      style == Ref(b + 4)
      styles == Ref(b + 5)
  IN [h |-> h \o <<FillObject(Str("rgba(255,255,255,0.4)")),
                   StrokeObject(Str("#3399CC"), Hundredths(125)),
                   CircleStyleObject(fill, stroke, Num(5)),
                   StyleObject([image |-> image, fill |-> fill,
                                stroke |-> stroke]),
                   ArrayObject(<<style>>)>>,
      v |-> styles, thrown |-> Undefined, defaultStyles |-> styles]

\* createDefaultStyle(feature, resolution), given the module variable
\* defaultStyles as `cached`; the outcome carries the variable's new value
createDefaultStyle(h, cached, feature, resolution) ==
  IF ~ToBoolean(cached) THEN
    LET b == Len(h)
        fill == Ref(b + 1)
        stroke == Ref(b + 2)
        image == Ref(b + 3)
        style == Ref(b + 4)
        styles == Ref(b + 5)
    IN [h |-> h \o <<FillObject(Str("rgba(255,255,255,0.4)")),
                     StrokeObject(Str("#3399CC"), Hundredths(125)),
                     CircleStyleObject(fill, stroke, Num(5)),
                     StyleObject([image |-> image, fill |-> fill,
                                  stroke |-> stroke]),
                     ArrayObject(<<style>>)>>,
        v |-> styles, thrown |-> Undefined, defaultStyles |-> styles]
  ELSE [h |-> h, v |-> cached, thrown |-> Undefined, defaultStyles |-> cached]

\* the geometry type tags of ol/geom/GeometryType.js
GeometryType ==
  [POINT |-> "Point", LINE_STRING |-> "LineString", POLYGON |-> "Polygon",
   MULTI_POINT |-> "MultiPoint", MULTI_LINE_STRING |-> "MultiLineString",
   MULTI_POLYGON |-> "MultiPolygon",
   GEOMETRY_COLLECTION |-> "GeometryCollection", CIRCLE |-> "Circle"]

\* Array.prototype.concat: the elements of a new array
concat(a, b) == a \o b

\* the objects that lines 357 to 363 allocate, the first of them at b + 1:
\* a color, a fill, a descriptor and the sequence that holds it
PolygonObjects(b) ==
  <<ArrayObject(<<Num(255), Num(255), Num(255), Hundredths(50)>>),
    FillObject(Ref(b + 1)),
    StyleObject([fill |-> Ref(b + 2)]),
    ArrayObject(<<Ref(b + 3)>>)>>

\* the line-string descriptors in the wrong order: the blue line first
LineStringObjectsBlueFirst(b, white, blue, width) ==
  <<StrokeObject(blue, width),
    StyleObject([stroke |-> Ref(b + 1)]),
    StrokeObject(white, Plus(width, Num(2))),
    StyleObject([stroke |-> Ref(b + 3)]),
    ArrayObject(<<Ref(b + 2), Ref(b + 4)>>)>>

\* the objects that lines 367 to 380 allocate: the white casing and the blue
\* line, each a stroke and a descriptor, and the sequence of the two
LineStringObjects(b, white, blue, width) ==
  <<StrokeObject(white, Plus(width, Num(2))),
    StyleObject([stroke |-> Ref(b + 1)]),
    StrokeObject(blue, width),
    StyleObject([stroke |-> Ref(b + 3)]),
    ArrayObject(<<Ref(b + 2), Ref(b + 4)>>)>>

\* the objects that lines 390 to 404 allocate: the fill, the stroke and the
\* circle of the marker, its descriptor and the sequence that holds it
PointObjects(b, white, blue, width) ==
  <<FillObject(blue),
    StrokeObject(white, Over(width, Num(2))),
    CircleStyleObject(Ref(b + 1), Ref(b + 2), Times(width, Num(2))),
    StyleObject([image |-> Ref(b + 3), zIndex |-> Infinity]),
    ArrayObject(<<Ref(b + 4)>>)>>

\* createEditingStyle(): the mapping, the colors white and blue, and the
\* sequences in the order the function builds them
createEditingStyle(h) ==
  LET b == Len(h)
      styles == Ref(b + 1)
      white == Ref(b + 2)
      blue == Ref(b + 3)
      width == Num(3)
      polygon == Ref(b + 7)
      lineString == Ref(b + 12)
      circle == Ref(b + 13)
      point == Ref(b + 18)
      collection == Ref(b + 19)
      polygonObjects == PolygonObjects(b + 3)
      lineStringObjects == LineStringObjects(b + 7, white, blue, width)
      pointObjects == PointObjects(b + 13, white, blue, width)
      polygonStyles == polygonObjects[4].elems
      lineStringStyles == lineStringObjects[5].elems
      pointStyles == pointObjects[5].elems
  IN Returned(
       h \o <<MapObject([key \in {GeometryType.POLYGON,
                                  GeometryType.MULTI_POLYGON} |-> polygon]
                        @@ [key \in {GeometryType.LINE_STRING,
                                     GeometryType.MULTI_LINE_STRING}
                              |-> lineString]
                        @@ (GeometryType.CIRCLE :> circle)
                        @@ [key \in {GeometryType.POINT,
                                     GeometryType.MULTI_POINT} |-> point]
                        @@ (GeometryType.GEOMETRY_COLLECTION :> collection)),
              ArrayObject(<<Num(255), Num(255), Num(255), Num(1)>>),
              ArrayObject(<<Num(0), Num(153), Num(255), Num(1)>>)>>
         \o polygonObjects
         \o lineStringObjects
         \o <<ArrayObject(concat(polygonStyles, lineStringStyles))>>
         \o pointObjects
         \o <<ArrayObject(concat(concat(polygonStyles, lineStringStyles),
                                 pointStyles))>>,
       styles)

---------------------------------------------------------------------------
(* The calls of a program that uses Style.js.  Each action is one call; it *)
(* leaves in `call` what was called, with what, and what came back.        *)

\* `before` is the object `this` as it was when the call began
Call(op, this, arg, options, outcome) ==
  [op |-> op, this |-> this, arg |-> arg, options |-> options,
   before |-> IF IsRef(this) /\ this.n \in DOMAIN heap THEN heap[this.n]
              ELSE Undefined,
   ret |-> outcome.v, thrown |-> outcome.thrown]

NoCall == Call("", Undefined, Undefined, NoOptions, Returned(<<>>, Undefined))

\* the objects of a class on the heap
Instances(h, kind) == {Ref(i) : i \in {j \in DOMAIN h : h[j].kind = kind}}

\* the identities among a set of values
Ids(values) == {v.n : v \in {w \in values : IsRef(w)}}

\* the objects that object i refers to
Children(h, i) ==
  LET o == h[i] IN
  CASE o.kind = "Style" ->
         Ids({o.geometry_, o.fill_, o.image_, o.stroke_, o.text_})
    [] o.kind = "Circle" -> Ids({o.fill_, o.stroke_})
    [] o.kind \in {"Fill", "Stroke"} -> Ids({o.color_})
    [] o.kind = "Array" -> Ids({o.elems[k] : k \in DOMAIN o.elems})
    [] o.kind = "Map" -> Ids({o.props[k] : k \in DOMAIN o.props})
    [] OTHER -> {}

\* the objects that can be reached from the objects `from`
RECURSIVE Reach(_, _)
Reach(h, from) ==
  CHOOSE all \in
    {IF next \subseteq from THEN from ELSE Reach(h, from \cup next) :
       next \in {UNION {Children(h, i) : i \in from}}} : TRUE

\* the sub-styles of descriptor d, with everything they refer to
Parts(h, d) ==
  Reach(h, Ids({getFill(h, d), getImage(h, d), getStroke(h, d),
                getText(h, d)}))

\* the heap after a method assigned `value` to the field of `this`
SetField(h, this, field, value) ==
  [h EXCEPT ![this.n] = [@ EXCEPT ![field] = value]]

\* how many descriptors a run allocates at most
MaxStyles == 2

\* new Style(options)
Construct(options) ==
  /\ Cardinality(Instances(heap, "Style")) < MaxStyles
  /\ \E r \in {Style(heap, options)} :
       /\ heap' = r.h
       /\ call' = Call("Style", r.v, Undefined, options, r)
  /\ UNCHANGED <<defaultStyles, held>>

\* this.setGeometry(geometry)
SetGeometry(this, geometry) ==
  /\ this \in Instances(heap, "Style")
  /\ heap' = [heap EXCEPT ![this.n] = setGeometry(@, geometry)]
  /\ call' = Call("setGeometry", this, geometry, NoOptions,
                  Returned(heap', Undefined))
  /\ UNCHANGED <<defaultStyles, held>>

\* this.clone()
Clone(this) ==
  /\ this \in Instances(heap, "Style")
  /\ Cardinality(Instances(heap, "Style")) < MaxStyles
  /\ \E r \in {clone(heap, this)} :
       /\ heap' = r.h
       /\ call' = Call("clone", this, Undefined, NoOptions, r)
       /\ held' = IF r.thrown # Undefined THEN held
                  ELSE Append(held, [op |-> "clone", ref |-> r.v,
                                     parts |-> Parts(r.h, r.v),
                                     from |-> this,
                                     fromParts |-> Parts(heap, this)])
  /\ UNCHANGED defaultStyles

\* a setter of Style.js: this.<field> = value
Setter(op, this, field, value) ==
  /\ this \in Instances(heap, "Style")
  /\ heap' = SetField(heap, this, field, value)
  /\ call' = Call(op, this, value, NoOptions, Returned(heap', Undefined))
  /\ UNCHANGED <<defaultStyles, held>>

Counted(bound) == calls < bound /\ calls' = calls + 1

SetFill(this, fill) == Setter("setFill", this, "fill_", fill)
SetImage(this, image) == Setter("setImage", this, "image_", image)
SetStroke(this, stroke) == Setter("setStroke", this, "stroke_", stroke)
SetText(this, text) == Setter("setText", this, "text_", text)
SetRenderer(this, renderer) ==
  Setter("setRenderer", this, "renderer_", renderer)
SetZIndex(this, zIndex) == Setter("setZIndex", this, "zIndex_", zIndex)

\* a sub-style changed in place by its own setter: setColor of a fill or a
\* stroke, setRadius of a circle, setText of a text
Mutated(o) ==
  CASE o.kind \in {"Fill", "Stroke"} -> [o EXCEPT !.color_ = Str("green")]
    [] o.kind = "Circle" -> [o EXCEPT !.radius_ = Num(9)]
    [] o.kind = "Text" -> [o EXCEPT !.text_ = Str("changed")]

MutateSubStyle(this) ==
  /\ this \in UNION {Instances(heap, k) : k \in {"Fill", "Stroke", "Circle", "Text"}}
  /\ heap' = [heap EXCEPT ![this.n] = Mutated(@)]
  /\ call' = Call("mutate", this, Undefined, NoOptions,
                  Returned(heap', Undefined))
  /\ UNCHANGED <<defaultStyles, held>>

\* what the caller keeps of a result: the reference, what it was made from,
\* the objects it reaches, and those objects as they were when it was returned
Kept(op, ref, from, h) ==
  CHOOSE entry \in
    {[op |-> op, ref |-> ref, from |-> from, parts |-> parts,
      then |-> [i \in parts |-> h[i]]] :
       parts \in {Reach(h, Ids({ref}))}} : TRUE

\* toFunction(obj); the caller keeps the style function, and will note what
\* its invocations return
ToFunction(obj) ==
  /\ \E r \in {toFunction(heap, obj)} :
       /\ heap' = r.h
       /\ call' = Call("toFunction", Undefined, obj, NoOptions, r)
       /\ held' = IF r.thrown # Undefined THEN held
                  ELSE Append(held, [op |-> "toFunction", ref |-> r.v,
                                     from |-> obj, results |-> {}])
  /\ UNCHANGED defaultStyles

\* an invocation of the style function that toFunction returned as the k-th
InvokeStyleFunction(k, feature, resolution) ==
  /\ k \in DOMAIN held
  /\ held[k].op = "toFunction"
  /\ \E styles \in {CallStyleFunction(held[k].ref, feature, resolution)} :
       /\ call' = Call("styleFunction", held[k].ref, feature,
                       [resolution |-> resolution], Returned(heap, styles))
       /\ held' = [held EXCEPT ![k].results = @ \cup {styles}]
  /\ UNCHANGED <<heap, defaultStyles>>

\* the caller changes a sequence in place: array.push(value)
ArrayPush(this, value) ==
  /\ this \in Instances(heap, "Array")
  /\ heap' = [heap EXCEPT ![this.n].elems = Append(@, value)]
  /\ call' = Call("push", this, value, NoOptions, Returned(heap', Undefined))
  /\ UNCHANGED <<defaultStyles, held>>

\* the caller changes a sequence in place: array.pop()
ArrayPop(this) ==
  /\ this \in Instances(heap, "Array")
  /\ heap[this.n].elems # <<>>
  /\ heap' = [heap EXCEPT ![this.n].elems = SubSeq(@, 1, Len(@) - 1)]
  /\ call' = Call("pop", this, Undefined, NoOptions,
                  Returned(heap', heap[this.n].elems[Len(heap[this.n].elems)]))
  /\ UNCHANGED <<defaultStyles, held>>

\* createDefaultStyle(feature, resolution)
CreateDefaultStyle(feature, resolution) ==
  /\ \E r \in {createDefaultStyle(heap, defaultStyles, feature, resolution)} :
       /\ heap' = r.h
       /\ defaultStyles' = r.defaultStyles
       /\ call' = Call("createDefaultStyle", Undefined, feature,
                       [resolution |-> resolution], r)
       /\ held' = Append(held, Kept("createDefaultStyle", r.v, Undefined, r.h))

\* createEditingStyle() with a cache like that of createDefaultStyle: the
\* mapping built by the first call is returned by the later ones
CreateEditingStyleCached ==
  /\ \E r \in {IF Instances(heap, "Map") # {}
                THEN Returned(heap, CHOOSE m \in Instances(heap, "Map") : TRUE)
                ELSE createEditingStyle(heap)} :
       /\ heap' = r.h
       /\ call' = Call("createEditingStyle", Undefined, Undefined, NoOptions, r)
       /\ held' = Append(held, Kept("createEditingStyle", r.v, Undefined, r.h))
  /\ UNCHANGED defaultStyles

\* createEditingStyle()
CreateEditingStyle ==
  /\ \E r \in {createEditingStyle(heap)} :
       /\ heap' = r.h
       /\ call' = Call("createEditingStyle", Undefined, Undefined, NoOptions, r)
       /\ held' = Append(held, Kept("createEditingStyle", r.v, Undefined, r.h))
  /\ UNCHANGED defaultStyles

---------------------------------------------------------------------------
(* The geometry resolver: descriptors are constructed with and without a   *)
(* geometry option, given new geometry specifications, and cloned.         *)

\* the geometry specifications the caller uses: the falsy values, property
\* names, a function, a geometry that can be cloned (heap object 1) and a
\* fixed value that cannot
GeometrySpecs ==
  {Undefined, Null, False, Num(0), NaN, Str(""), Str("geom"), UserFn(1),
   Ref(1), Num(42)}

GeometryOptions ==
  {NoOptions} \cup {[geometry |-> g] : g \in GeometrySpecs}

InitGeometry ==
  /\ heap = NewGeometry(<<>>, Str("POINT(1 2)")).h
  /\ defaultStyles = Null
  /\ call = NoCall
  /\ held = <<>>
  /\ calls = 0

\* the number of calls in a behaviour of SpecGeometry
MaxGeometryCalls == 3

NextGeometry ==
  \/ \E options \in GeometryOptions :
       Construct(options) /\ Counted(MaxGeometryCalls)
  \/ \E this \in Instances(heap, "Style"), geometry \in GeometrySpecs :
       SetGeometry(this, geometry) /\ Counted(MaxGeometryCalls)
  \/ \E this \in Instances(heap, "Style") :
       Clone(this) /\ Counted(MaxGeometryCalls)

SpecGeometry == InitGeometry /\ [][NextGeometry]_vars

\* the resolver of descriptor d resolves every feature to its own geometry
ResolvesToOwnGeometry(d) ==
  /\ getGeometryFunction(heap, d) = defaultGeometryFunction
  /\ \A f \in Features :
       CallGeometryFunction(getGeometryFunction(heap, d), f)
         = FeatureGetGeometry(f)

\* C1 as stated: after setGeometry(x) with any falsy x, the empty string
\* included, the resolver is the default resolver: applied to any feature it
\* returns the feature's own geometry.
C1_FalsyResetsResolver ==
  (call.op = "setGeometry" /\ ~ToBoolean(call.arg))
    => ResolvesToOwnGeometry(call.this)

\* C1 amended: after setGeometry(x) with a falsy x that is not a string
\* (undefined, null, false, 0, NaN), whatever was set before, the resolver is
\* the default resolver; after setGeometry("") the resolver looks up the
\* property "" of the feature.
C1_FalsyNonStringResetsResolver ==
  /\ (call.op = "setGeometry" /\ ~ToBoolean(call.arg)
        /\ TypeOf(call.arg) # "string")
       => ResolvesToOwnGeometry(call.this)
  /\ (call.op = "setGeometry" /\ call.arg = Str(""))
       => /\ getGeometryFunction(heap, call.this) # defaultGeometryFunction
          /\ \A f \in Features :
               CallGeometryFunction(getGeometryFunction(heap, call.this), f)
                 = FeatureGet(f, "")

\* C1 witness: setGeometry(0) has reset a descriptor whose resolver was a
\* property lookup
C1_Witness ==
  /\ call.op = "setGeometry"
  /\ call.arg = Num(0)
  /\ call.before.geometryFunction_ = Closure("featureGet", Str("geom"))
  /\ ResolvesToOwnGeometry(call.this)

\* C2: the stored specification and the resolver of every descriptor agree
\* with the value x set last: getGeometry() is x, the resolver is never
\* absent, it is x when x is a function, it maps f to f.get(x) when x is a
\* string, and it returns x for every feature when x is another truthy value;
\* a descriptor constructed without a geometry option has the default
\* resolver.
C2_SpecAndResolverConsistent ==
  /\ call.op = "setGeometry" => getGeometry(heap, call.this) = call.arg
  /\ (call.op = "Style" /\ Opt(call.options, "geometry") # Undefined)
       => getGeometry(heap, call.ret) = Opt(call.options, "geometry")
  /\ (call.op = "Style" /\ Opt(call.options, "geometry") = Undefined)
       => getGeometryFunction(heap, call.ret) = defaultGeometryFunction
  /\ \A d \in Instances(heap, "Style") :
       LET x == getGeometry(heap, d)
           resolver == getGeometryFunction(heap, d)
       IN /\ TypeOf(resolver) = "function"
          /\ TypeOf(x) = "function" => resolver = x
          /\ TypeOf(x) = "string" =>
               \A f \in Features :
                 CallGeometryFunction(resolver, f) = FeatureGet(f, x.s)
          /\ (ToBoolean(x) /\ TypeOf(x) \notin {"function", "string"}) =>
               \A f \in Features : CallGeometryFunction(resolver, f) = x

\* C2 witness: a descriptor that had a function as its geometry was given a
\* fixed value, and its resolver returns that value
C2_Witness ==
  /\ call.op = "setGeometry"
  /\ call.arg = Num(42)
  /\ call.before.geometry_ = UserFn(1)
  /\ \A f \in Features :
       CallGeometryFunction(getGeometryFunction(heap, call.this), f) = Num(42)

---------------------------------------------------------------------------
(* Cloning: the caller owns a fill (1), a stroke (2), a circle that uses   *)
(* both (3), a text (4) and a plain record with no clone method (5); it    *)
(* constructs descriptors from them, sets fields, clones, and changes      *)
(* sub-styles in place.                                                    *)

PoolFill == Ref(1)
PoolStroke == Ref(2)
PoolImage == Ref(3)
PoolText == Ref(4)
PoolRecord == Ref(5)
Renderer == UserFn(2)

Pool ==
  <<FillObject(Str("red")),
    StrokeObject(Str("blue"), Num(1)),
    CircleStyleObject(PoolFill, PoolStroke, Num(5)),
    TextObject(Str("label")),
    PlainObject(Str("record"))>>

AllSubStyles ==
  [fill |-> PoolFill, stroke |-> PoolStroke, image |-> PoolImage,
   text |-> PoolText]

CloneOptions ==
  {NoOptions,
   [fill |-> PoolFill],
   AllSubStyles,
   [fill |-> PoolFill, stroke |-> PoolStroke, image |-> PoolImage,
    text |-> PoolText, renderer |-> Renderer, zIndex |-> Infinity],
   [fill |-> PoolRecord, stroke |-> PoolStroke],
   [text |-> PoolRecord, renderer |-> Renderer]}

\* how many calls a run of the cloning scenario makes at most
MaxCloneCalls == 3

InitClone ==
  /\ heap = Pool
  /\ defaultStyles = Null
  /\ call = NoCall
  /\ held = <<>>
  /\ calls = 0

NextClone ==
  \/ \E options \in CloneOptions :
       Construct(options) /\ Counted(MaxCloneCalls)
  \/ \E this \in Instances(heap, "Style") :
       Clone(this) /\ Counted(MaxCloneCalls)
  \/ \E this \in Instances(heap, "Style"),
        fill \in {Null, PoolFill, PoolRecord} :
       SetFill(this, fill) /\ Counted(MaxCloneCalls)
  \/ \E this \in Instances(heap, "Style"),
        image \in {Null, PoolImage, PoolRecord} :
       SetImage(this, image) /\ Counted(MaxCloneCalls)
  \/ \E this \in Instances(heap, "Style"), stroke \in {Null, PoolStroke} :
       SetStroke(this, stroke) /\ Counted(MaxCloneCalls)
  \/ \E this \in Instances(heap, "Style"), text \in {Null, PoolText} :
       SetText(this, text) /\ Counted(MaxCloneCalls)
  \/ \E this \in Instances(heap, "Style"), renderer \in {Null, Renderer} :
       SetRenderer(this, renderer) /\ Counted(MaxCloneCalls)
  \/ \E this \in Instances(heap, "Style"), zIndex \in {Num(1)} :
       SetZIndex(this, zIndex) /\ Counted(MaxCloneCalls)
  \/ \E this \in Instances(heap, "Fill") \cup Instances(heap, "Stroke")
                   \cup Instances(heap, "Circle") \cup Instances(heap, "Text") :
       MutateSubStyle(this) /\ Counted(MaxCloneCalls)

SpecClone == InitClone /\ [][NextClone]_vars

\* the fields of a descriptor that hold sub-styles
SubStyleFields == {"fill_", "image_", "stroke_", "text_"}

\* the content of a value: the value itself, or the object it refers to with
\* the content of everything the object refers to, identities left out
RECURSIVE Content(_, _)
Content(h, v) ==
  IF ~IsRef(v) THEN [value |-> v]
  ELSE LET o == h[v.n] IN
    CASE o.kind = "Style" ->
           [o EXCEPT !.geometry_ = Content(h, @), !.fill_ = Content(h, @),
                     !.image_ = Content(h, @), !.stroke_ = Content(h, @),
                     !.text_ = Content(h, @)]
      [] o.kind = "Circle" ->
           [o EXCEPT !.fill_ = Content(h, @), !.stroke_ = Content(h, @)]
      [] o.kind \in {"Fill", "Stroke"} -> [o EXCEPT !.color_ = Content(h, @)]
      [] o.kind = "Array" ->
           [o EXCEPT !.elems = [k \in DOMAIN @ |-> Content(h, @[k])]]
      [] o.kind = "Map" ->
           [o EXCEPT !.props = [k \in DOMAIN @ |-> Content(h, @[k])]]
      [] OTHER -> o

\* the last call was a clone() that returned
CloneReturned == call.op = "clone" /\ call.thrown = Undefined

\* the last call was a clone() of a descriptor that held, in some field, a
\* value with no clone method
CloneOfUnclonable ==
  /\ call.op = "clone"
  /\ \E field \in SubStyleFields :
       ToBoolean(call.before[field]) /\ ~HasClone(heap, call.before[field])

\* C3, for the state a clone() returns in: each sub-style present in the
\* original is, in the clone, another instance of the same class with equal
\* content that shares no object with the original's; each field absent in
\* the original is absent in the clone.
C3_CloneHoldsCopies ==
  CloneReturned =>
    \A field \in SubStyleFields :
      LET original == call.before[field]
          copy == heap[call.ret.n][field]
      IN IF ToBoolean(original)
         THEN /\ IsRef(copy)
              /\ copy # original
              /\ Content(heap, copy) = Content(heap, original)
              /\ Reach(heap, {copy.n}) \cap Reach(heap, {original.n}) = {}
         ELSE copy = Null

\* C3, for the calls after a clone(): a call on the clone or on a sub-style
\* the clone was given leaves the original and the sub-styles it had
\* unchanged, and the other way round.
C3_CallsKeepToTheirSide ==
  \A k \in DOMAIN held :
    LET cloneSide == held[k].parts \cup {held[k].ref.n}
        originalSide == held[k].fromParts \cup {held[k].from.n}
    IN /\ (IsRef(call'.this) /\ call'.this.n \in cloneSide)
            => \A i \in originalSide : heap'[i] = heap[i]
       /\ (IsRef(call'.this) /\ call'.this.n \in originalSide)
            => \A i \in cloneSide : heap'[i] = heap[i]

\* C3: clone() of a descriptor whose sub-styles can be cloned holds, for each
\* of fill, stroke, image and text, a different instance made by the
\* sub-style's clone() if the field is present, and nothing if it is absent;
\* later setter calls and mutations on either side leave the other side
\* unchanged.
C3_CloneIsIndependent ==
  [](C3_CloneHoldsCopies) /\ [][C3_CallsKeepToTheirSide]_vars

\* C3 witness: a descriptor with all four sub-styles was cloned, the fill of
\* the clone was then changed in place, and the fill of the original is as it
\* was
C3_Witness ==
  /\ call.op = "mutate"
  /\ held # <<>>
  /\ call.this = getFill(heap, held[1].ref)
  /\ \A field \in SubStyleFields : ToBoolean(heap[held[1].from.n][field])
  /\ heap[call.this.n].color_ = Str("green")
  /\ heap[getFill(heap, held[1].from).n].color_ = Str("red")

\* C4 as stated: clone() of a descriptor that holds a sub-style with no clone
\* method raises no error and returns a descriptor in which that field is
\* absent; no clone holds a sub-style instance of its original.
C4_UnclonableIsLeftOut ==
  /\ CloneOfUnclonable =>
       /\ call.thrown = Undefined
       /\ \A field \in SubStyleFields :
            ~HasClone(heap, call.before[field])
              => heap[call.ret.n][field] = Null
  /\ CloneReturned =>
       \A field \in SubStyleFields :
         ToBoolean(call.before[field])
           => heap[call.ret.n][field] # call.before[field]

\* C4 amended: clone() of a descriptor that holds a sub-style with no clone
\* method raises a TypeError and returns no descriptor; no clone holds a
\* sub-style instance of its original.
C4_UnclonableThrows ==
  /\ CloneOfUnclonable =>
       /\ call.thrown = TypeError
       /\ call.ret = Undefined
  /\ CloneReturned =>
       \A field \in SubStyleFields :
         ToBoolean(call.before[field])
           => heap[call.ret.n][field] # call.before[field]

\* C4 witness: clone() of a descriptor whose fill is a plain record threw
C4_Witness ==
  /\ call.op = "clone"
  /\ call.before.fill_ = PoolRecord
  /\ call.thrown = TypeError

\* C5: the descriptor that clone() returns has no renderer, and the original
\* has the renderer it had before the call.
C5_CloneDropsRenderer ==
  CloneReturned =>
    /\ getRenderer(heap, call.ret) = Null
    /\ getRenderer(heap, call.this) = call.before.renderer_

\* C5 witness: a descriptor with a renderer was cloned; the clone has none
\* and the original has kept its own
C5_Witness ==
  /\ CloneReturned
  /\ call.before.renderer_ = Renderer
  /\ getRenderer(heap, call.this) = Renderer
  /\ getRenderer(heap, call.ret) = Null

---------------------------------------------------------------------------
(* The adapter: the caller owns two descriptors (1, 2), a sequence of both *)
(* (3), a sequence of a descriptor and a number (4), a plain record (5)    *)
(* and an empty sequence (6); it passes them and other values to           *)
(* toFunction, invokes the style functions it gets, and changes its own    *)
(* sequences in place.                                                     *)

AdapterPool ==
  <<StyleObject(NoOptions),
    StyleObject([zIndex |-> Num(1)]),
    ArrayObject(<<Ref(1), Ref(2)>>),
    ArrayObject(<<Ref(1), Num(42)>>),
    PlainObject(Str("record")),
    ArrayObject(<<>>)>>

StyleFunction == UserFn(3)

AdapterInputs ==
  {StyleFunction, Ref(1), Ref(2), Ref(3), Ref(4), Ref(5), Ref(6), Num(42),
   Undefined, Null, Str("style")}

\* how many calls a run of the adapter scenario makes at most
MaxAdapterCalls == 3

InitAdapter ==
  /\ heap = AdapterPool
  /\ defaultStyles = Null
  /\ call = NoCall
  /\ held = <<>>
  /\ calls = 0

NextAdapter ==
  \/ \E obj \in AdapterInputs : ToFunction(obj) /\ Counted(MaxAdapterCalls)
  \/ \E k \in DOMAIN held, feature \in Features \cup {Undefined},
        resolution \in {Undefined, Num(2)} :
       InvokeStyleFunction(k, feature, resolution)
         /\ Counted(MaxAdapterCalls)
  \/ \E this \in {Ref(3), Ref(4), Ref(6)} :
       ArrayPush(this, Ref(2)) /\ Counted(MaxAdapterCalls)

SpecAdapter == InitAdapter /\ [][NextAdapter]_vars

---------------------------------------------------------------------------
(* The factories: a program that has just loaded Style.js calls            *)
(* createDefaultStyle and createEditingStyle, and changes what they        *)
(* returned: it pops sequences, sets the fill of descriptors, and changes  *)
(* fills and strokes in place.                                             *)

\* how many calls a run of the factory scenario makes at most
MaxFactoryCalls == 3

InitFactory ==
  /\ heap = <<>>
  /\ defaultStyles = Null
  /\ call = NoCall
  /\ held = <<>>
  /\ calls = 0

\* the sequences of descriptors among the results
StyleSequences ==
  {a \in Instances(heap, "Array") :
     \E k \in DOMAIN heap[a.n].elems : IsKind(heap, heap[a.n].elems[k], "Style")}

NextFactory ==
  \/ \E feature \in {Ext("Feature", 1), Undefined}, resolution \in {Num(1), Num(2)} :
       CreateDefaultStyle(feature, resolution) /\ Counted(MaxFactoryCalls)
  \/ CreateEditingStyle /\ Counted(MaxFactoryCalls)
  \/ \E this \in StyleSequences : ArrayPop(this) /\ Counted(MaxFactoryCalls)
  \/ \E this \in Instances(heap, "Style") :
       SetFill(this, Null) /\ Counted(MaxFactoryCalls)
  \/ \E this \in Instances(heap, "Fill") \cup Instances(heap, "Stroke") :
       MutateSubStyle(this) /\ Counted(MaxFactoryCalls)

SpecFactory == InitFactory /\ [][NextFactory]_vars

---------------------------------------------------------------------------
(* The claims about the factories *)

\* the results of a factory that the caller keeps, in the order of the calls
KeptOf(op) == {k \in DOMAIN held : held[k].op = op}

\* the first createDefaultStyle call: its entry among the kept results
FirstDefault ==
  held[CHOOSE k \in KeptOf("createDefaultStyle") :
         \A j \in KeptOf("createDefaultStyle") : k <= j]

\* in the objects `h`, the sequence `styles` holds one descriptor, whose image
\* holds the fill and the stroke instances that the descriptor holds
IsDefaultStyles(h, styles) ==
  /\ Len(h[styles.n].elems) = 1
  /\ LET style == h[h[styles.n].elems[1].n] IN
       /\ style.kind = "Style"
       /\ IsRef(style.fill_) /\ IsRef(style.stroke_) /\ IsRef(style.image_)
       /\ h[style.image_.n].fill_ = style.fill_
       /\ h[style.image_.n].stroke_ = style.stroke_

\* C6 as stated: whatever the callers did to earlier results, every
\* createDefaultStyle call returns the sequence of the first call, holding
\* the descriptor, fill, stroke and image instances it held then, the image's
\* fill and stroke being the descriptor's.
C6_DefaultUntouchedByCallers ==
  call.op = "createDefaultStyle" =>
    LET first == FirstDefault
        style == first.then[first.ref.n].elems[1]
    IN /\ call.ret = first.ref
       /\ heap[call.ret.n].elems = first.then[first.ref.n].elems
       /\ heap[style.n].fill_ = first.then[style.n].fill_
       /\ heap[style.n].stroke_ = first.then[style.n].stroke_
       /\ heap[style.n].image_ = first.then[style.n].image_
       /\ IsDefaultStyles(heap, call.ret)

\* C6 amended, for every state: all createDefaultStyle calls returned one
\* reference, the value of defaultStyles, and the first call built a
\* sequence of one descriptor whose image holds the descriptor's fill and
\* stroke instances.
C6_OneCachedSequence ==
  /\ KeptOf("createDefaultStyle") = {} => defaultStyles = Null
  /\ \A k \in KeptOf("createDefaultStyle") :
       /\ IsRef(defaultStyles)
       /\ held[k].ref = defaultStyles
  /\ KeptOf("createDefaultStyle") # {} =>
       IsDefaultStyles(FirstDefault.then, FirstDefault.ref)

\* C6 amended, for every step: defaultStyles is written once, and a call
\* that finds it set changes no object, so that the sequence it returns is
\* as the callers left it.
C6_LaterCallsChangeNothing ==
  /\ ToBoolean(defaultStyles) => defaultStyles' = defaultStyles
  /\ (call'.op = "createDefaultStyle" /\ ToBoolean(defaultStyles))
       => heap' = heap

\* C6 amended: the default-style cache is written at most once; the first
\* call builds a sequence of length 1 whose descriptor and image share one
\* fill and one stroke; every later call returns that sequence reference
\* and builds or resets nothing, so it holds what the callers left in it.
C6_CacheWrittenOnce ==
  [](C6_OneCachedSequence) /\ [][C6_LaterCallsChangeNothing]_vars

\* C6 witness: a second call returned the sequence of the first after a
\* caller had emptied it
C6_Witness ==
  /\ call.op = "createDefaultStyle"
  /\ Cardinality(KeptOf("createDefaultStyle")) = 2
  /\ call.ret = FirstDefault.ref
  /\ heap[call.ret.n].elems = <<>>

\* the sequence under a key of an editing-style mapping, in the objects h
EditingSequence(h, styles, key) == h[styles.n].props[GeometryType[key]]

\* C7, for every state: in each mapping createEditingStyle returned, the
\* polygon keys hold one sequence, the line-string keys one, the point keys
\* one; two calls returned mappings that share no object and had equal
\* content when returned.
C7_SharedWithinOneCall ==
  /\ \A k \in KeptOf("createEditingStyle") :
       LET h == held[k].then
           styles == held[k].ref
       IN /\ EditingSequence(h, styles, "POLYGON")
               = EditingSequence(h, styles, "MULTI_POLYGON")
          /\ EditingSequence(h, styles, "LINE_STRING")
               = EditingSequence(h, styles, "MULTI_LINE_STRING")
          /\ EditingSequence(h, styles, "POINT")
               = EditingSequence(h, styles, "MULTI_POINT")
  /\ \A k1, k2 \in KeptOf("createEditingStyle") :
       k1 # k2 =>
         /\ held[k1].ref # held[k2].ref
         /\ held[k1].parts \cap held[k2].parts = {}
         /\ Content(held[k1].then, held[k1].ref)
              = Content(held[k2].then, held[k2].ref)

\* C7, for every step: a call on an object of one createEditingStyle result
\* changes no object of another result.
C7_CallsKeepToOneResult ==
  \A k1, k2 \in KeptOf("createEditingStyle") :
    (k1 # k2 /\ IsRef(call'.this) /\ call'.this.n \in held[k1].parts)
      => \A i \in held[k2].parts : heap'[i] = heap[i]

\* C7: the sequences of an editing style are shared between the keys of one
\* call's mapping and never between calls: two calls return distinct
\* mappings, sequences and descriptors with equal content, and a mutation of
\* one call's result is not visible in another's.
C7_AliasedWithinNotAcross ==
  [](C7_SharedWithinOneCall) /\ [][C7_CallsKeepToOneResult]_vars

\* C7 witness: of two results, the polygon sequence of the first was emptied
\* through pop; the first result shows it under both polygon keys, and the
\* second result still holds its descriptor
C7_Witness ==
  /\ Cardinality(KeptOf("createEditingStyle")) = 2
  /\ call.op = "pop"
  /\ \E k1, k2 \in KeptOf("createEditingStyle") :
       /\ k1 # k2
       /\ call.this = EditingSequence(heap, held[k1].ref, "POLYGON")
       /\ heap[EditingSequence(heap, held[k1].ref, "MULTI_POLYGON").n].elems
            = <<>>
       /\ Len(heap[EditingSequence(heap, held[k2].ref, "POLYGON").n].elems) = 1

\* the elements of the sequence under a key of the mapping just returned
Editing(key) == heap[EditingSequence(heap, call.ret, key).n].elems

\* the stroke of descriptor d: its width, and the elements of its color
StrokeWidth(d) == heap[getStroke(heap, d).n].width_
StrokeColor(d) == heap[heap[getStroke(heap, d).n].color_.n].elems

\* C10: in every createEditingStyle result the line-string sequence is the
\* white casing of width 5 and then the blue line of width 3; the circle
\* sequence is a sequence of its own holding the polygon descriptor and the
\* two line-string descriptors; the geometry-collection sequence is a
\* sequence of its own holding those three and the point descriptor; only
\* the point descriptor has a zIndex, Infinity.
C10_PaintOrder ==
  call.op = "createEditingStyle" =>
    LET polygon == Editing("POLYGON")
        lineString == Editing("LINE_STRING")
        point == Editing("POINT")
        sequences == {EditingSequence(heap, call.ret, key) :
                        key \in DOMAIN GeometryType}
    IN /\ Len(lineString) = 2 /\ Len(polygon) = 1 /\ Len(point) = 1
       /\ StrokeWidth(lineString[1]) = Num(5)
       /\ StrokeColor(lineString[1]) = <<Num(255), Num(255), Num(255), Num(1)>>
       /\ StrokeWidth(lineString[2]) = Num(3)
       /\ StrokeColor(lineString[2]) = <<Num(0), Num(153), Num(255), Num(1)>>
       /\ Editing("CIRCLE") = <<polygon[1], lineString[1], lineString[2]>>
       /\ Editing("GEOMETRY_COLLECTION")
            = <<polygon[1], lineString[1], lineString[2], point[1]>>
       /\ Cardinality(sequences) = 5
       /\ Cardinality({polygon[1], lineString[1], lineString[2], point[1]}) = 4
       /\ getZIndex(heap, point[1]) = Infinity
       /\ \A d \in {polygon[1], lineString[1], lineString[2]} :
            getZIndex(heap, d) = Undefined

\* C10 witness: a second createEditingStyle call has returned, with a
\* geometry-collection sequence of four descriptors
C10_Witness ==
  /\ call.op = "createEditingStyle"
  /\ Cardinality(KeptOf("createEditingStyle")) = 2
  /\ Len(Editing("GEOMETRY_COLLECTION")) = 4
  /\ Len(Editing("CIRCLE")) = 3

---------------------------------------------------------------------------
(* The claims about the adapter *)

\* the shapes the claim has toFunction accept: a function, a sequence of
\* descriptors only, a descriptor
IsStyleLike(obj) ==
  \/ TypeOf(obj) = "function"
  \/ /\ IsArray(heap, obj)
     /\ \A k \in DOMAIN heap[obj.n].elems :
          InstanceOfStyle(heap, heap[obj.n].elems[k])
  \/ InstanceOfStyle(heap, obj)

\* C8 as stated: toFunction(obj) throws the assertion error 41, and returns
\* no style function, for every obj that is not a function, a sequence of
\* descriptors only, or a descriptor.
C8_RejectsAllButStyleLike ==
  (call.op = "toFunction" /\ ~IsStyleLike(call.arg))
    => /\ call.thrown = AssertionError(41)
       /\ call.ret = Undefined

\* C8 amended: toFunction(obj) throws the assertion error 41, and returns no
\* style function, for every obj that is not a function, a sequence
\* (whatever its elements are) or a descriptor; a sequence that holds
\* something other than a descriptor is accepted like any other sequence.
C8_RejectsAllButFunctionArrayStyle ==
  /\ (call.op = "toFunction" /\ TypeOf(call.arg) # "function"
        /\ ~IsArray(heap, call.arg) /\ ~InstanceOfStyle(heap, call.arg))
       => /\ call.thrown = AssertionError(41)
          /\ call.ret = Undefined
  /\ (call.op = "toFunction" /\ IsArray(heap, call.arg))
       => /\ call.thrown = Undefined
          /\ CallStyleFunction(call.ret, Undefined, Undefined) = call.arg

\* C8 witness: toFunction(42) threw the assertion error 41
C8_Witness ==
  /\ call.op = "toFunction"
  /\ call.arg = Num(42)
  /\ call.thrown = AssertionError(41)

\* C9: toFunction returns a function unchanged; for a sequence it returns a
\* style function whose every invocation returns that sequence object; for
\* a descriptor it returns a style function whose every invocation returns
\* one sequence object, which holds the descriptor and nothing else.
C9_NormalizesWithoutCopying ==
  /\ (call.op = "toFunction" /\ TypeOf(call.arg) = "function")
       => call.ret = call.arg
  /\ \A k \in KeptOf("toFunction") :
       LET from == held[k].from
           results == held[k].results
                        \cup {CallStyleFunction(held[k].ref, f, Num(1)) :
                                f \in Features}
       IN /\ IsArray(heap, from) => results = {from}
          /\ InstanceOfStyle(heap, from) =>
               /\ Cardinality(results) = 1
               /\ \A styles \in results :
                    /\ IsArray(heap, styles)
                    /\ heap[styles.n].elems = <<from>>

\* C9 witness: the style function made from the caller's sequence of two
\* descriptors returned that sequence, after the caller had pushed a third
C9_Witness ==
  /\ call.op = "styleFunction"
  /\ held[1].from = Ref(3)
  /\ call.ret = Ref(3)
  /\ Len(heap[3].elems) = 3

====
